---- MODULE Spec2Model ----
(***************************************************************************)
(* A model of igata's bounded-batch intake and execution controller:       *)
(*   - the SQS intake context managers (igata/handlers/aws/input/sqs.py),  *)
(*   - the buffered output context managers                                *)
(*     (igata/handlers/aws/output/__init__.py, sqs.py, dynamodb.py, s3.py),*)
(*   - PredictionExecutor.execute (igata/runners/executors.py).            *)
(*                                                                         *)
(*   - serialize_json_and_chunk_by_bytes (igata/utils.py).                 *)
(*                                                                         *)
(* Spec      : one call of PredictionExecutor.execute().                   *)
(* SinkSpec  : an output context manager driven directly by a caller       *)
(*             (put_record calls inside a with block, then __exit__).      *)
(* ChunkSpec : one call of serialize_json_and_chunk_by_bytes, consumed to  *)
(*             its end.                                                    *)
(* NotifySpec: one call of PredictionExecutor._handle_sns_notifications.   *)
(* TableSpec : DynamodbOutputCtxManager.put_records called by a caller,    *)
(*             with the detailed-results table it writes.                  *)
(***************************************************************************)
EXTENDS Integers, Sequences, FiniteSets, TLC

(***************************************************************************)
(* Bounds of the model.                                                    *)
(***************************************************************************)
\* messages the source can hand out during one drain
MaxMessages == 2
\* items of a message body that is a JSON array
MaxUnitsPerMessage == 2
\* keys of a message body that is a JSON object
ObjectKeys == 2
\* largest max_processing_requests tried
MaxCapacity == 2
\* largest RESULT_RECORD_CHUNK_SIZE tried
MaxChunkSize == 2
\* put_record calls of a direct caller of the sink
MaxPuts == 5
\* things that go wrong in one run: a unit whose resource cannot be resolved or for
\* which a step of the predictor raises, times out or returns no mapping, and a
\* write of the sink that fails
MaxFaults == 1
\* items given to serialize_json_and_chunk_by_bytes
MaxItems == 4
\* largest JSON-encoded size (bytes) of one item
MaxItemBytes == 2
\* largest max_bytes tried
MaxBytes == 8
\* SNS topics named by the requests of one run
MaxTopics == 2
\* groups serialize_json_and_chunk_by_bytes yields for the request ids of one topic
MaxGroups == 2
\* prediction results of the records given to one put_records call
MaxResultsPerCall == 2
\* records with the same request id sunk in one run
MaxUpdates == 3
\* largest timeout_seconds given to set_predict_timeout
MaxTimeout == 3
\* set_predict_timeout calls
MaxArms == 3
\* distinct values of the score field of a result
MaxScore == 2
\* put_item calls on the detailed-results table
MaxPutItems == 4

(***************************************************************************)
(* Program constants.                                                      *)
(***************************************************************************)
MAX_PER_REQUEST_PROCESSING_SECONDS == 60
SQS_VISIBILITYTIMEOUT_SECONDS_ON_EXCEPTION == 5
\* queue.receive_messages(MaxNumberOfMessages=1, ...)
MaxNumberOfMessages == 1

VARIABLES
    pc,                             \* position of the caller / of execute()
    exc,                            \* exception in flight ("none" when there is none)
    inputKind,                      \* class of the input context manager
    sinkKind,                       \* class of the output context manager
    max_processing_requests,        \* self.max_processing_requests
    chunk_size,                     \* RESULT_RECORD_CHUNK_SIZE
    estimated_visibility_timeout,   \* local of the drain
    receive_calls,                  \* log of queue.receive_messages calls
    messages,                       \* bodies of the messages received so far (index = message id)
    processed_messages,             \* self.processed_messages (message ids)
    deleted,                        \* per message: number of message.delete() calls
    visibility_changes,             \* per message: timeouts given to message.change_visibility
    all_processing_requests,        \* accumulated units
    cursor,                         \* units yielded by get_records so far
    record_results,                 \* self._record_results of the sink
    put_records_calls,              \* log of put_records calls (the records given to each)
    put_record_calls,               \* log of put_record calls (the record given to each)
    put_return,                     \* value returned by the last put_record call
    exit_flushed,                   \* what the sink's __exit__ handed to put_records
    summary_results,                \* Counter returned by execute()
    history,                        \* per-run counts of what happened to the units
    unit_log,                       \* per yielded unit: what the loop body did with it
    sent_calls,                     \* per put_records call: the records that reached the destination
    futures,                        \* self.futures of the DynamoDB sink: the update_item calls submitted
    items,                          \* chunker: JSON-encoded size of each item of the argument
    max_bytes,                      \* chunker: the max_bytes argument
    item_index,                     \* chunker: items consumed by the for loop
    is_initial,                     \* chunker: local is_initial
    last_json_str,                  \* chunker: local last_json_str
    chunked_items,                  \* chunker: local chunked_items (indices into items)
    yielded,                        \* chunker: the values yielded so far
    sns_notifications,              \* per topic (in insertion order): the groups to publish
    publish_calls,                  \* log of SNS.publish calls, with their outcome
    published_message_count,        \* value returned by _handle_sns_notifications
    results_table,                  \* rows of the detailed-results table
    put_item_calls,                 \* results written with detailed_writer.put_item
    alarm,                          \* seconds left of the process's SIGALRM timer (0: not armed)
    PROCESSING_TIMEOUT_SECONDS,     \* self.PROCESSING_TIMEOUT_SECONDS of the predictor (0: None)
    set_predict_timeout_calls,      \* log of the set_predict_timeout calls
    info,                           \* merge: the keys of the info of a yielded unit
    predict_result,                 \* merge: the keys of the dict returned by predict
    merged_result,                  \* merge: the keys of record_results, each with where its value is from
    update_item_calls,              \* requests table: the update_item calls submitted for one request id
    applied_updates,                \* requests table: the submitted calls whose table.update_item is done
    requests_row                    \* requests table: the call the row of the request id is from (0: none)

chunkVars == <<items, max_bytes, item_index, is_initial, last_json_str, chunked_items, yielded>>

notifyVars == <<sns_notifications, publish_calls, published_message_count>>

tableVars == <<results_table, put_item_calls>>

alarmVars == <<alarm, PROCESSING_TIMEOUT_SECONDS, set_predict_timeout_calls>>

mergeVars == <<info, predict_result, merged_result>>

requestsVars == <<update_item_calls, applied_updates, requests_row>>

vars == <<pc, exc, inputKind, sinkKind, max_processing_requests, chunk_size,
          estimated_visibility_timeout, receive_calls, messages, processed_messages,
          deleted, visibility_changes, all_processing_requests, cursor,
          record_results, put_records_calls, put_record_calls, put_return,
          exit_flushed, summary_results, history, unit_log, sent_calls, futures, chunkVars,
          notifyVars, tableVars, alarmVars, mergeVars, requestsVars>>

intakeVars == <<estimated_visibility_timeout, receive_calls, messages, processed_messages,
                deleted, visibility_changes, all_processing_requests, cursor>>

sinkVars == <<record_results, put_records_calls, put_record_calls, put_return, exit_flushed,
              sent_calls, futures>>

configVars == <<inputKind, sinkKind, max_processing_requests, chunk_size>>

InputKinds == {"SQSMessageS3InputImageCtxManager", "SQSMessageS3InputCSVReaderCtxManager",
               "SQSMessagePassthroughCtxManager"}

SinkKinds == {"SQSRecordOutputCtxManager", "DynamodbOutputCtxManager",
              "S3BucketPandasDataFrameCsvFileOutputCtxManager"}

\* bodies a received message may carry: a JSON array of n requests, a single JSON
\* object (a request with n keys), a JSON scalar (number, null, ...), or text that
\* is not JSON
Bodies ==
    {[kind |-> "list", n |-> k] : k \in 0..MaxUnitsPerMessage}
      \cup {[kind |-> "dict", n |-> ObjectKeys],
            [kind |-> "scalar", n |-> 0], [kind |-> "invalid_json", n |-> 0]}

NoReturn == [type |-> "none", value |-> 0]

(***************************************************************************)
(* Helpers.                                                                *)
(***************************************************************************)
Range(s) == {s[i] : i \in DOMAIN s}

Occurrences(s, x) == Cardinality({i \in DOMAIN s : s[i] = x})

SeqsUpTo(S, n) == UNION {[1..k -> S] : k \in 0..n}

Min(a, b) == IF a <= b THEN a ELSE b

(***************************************************************************)
(* Intake: the drain of get_records / _get_processing_requests.            *)
(***************************************************************************)
\* estimated_visibility_timeout = self.max_processing_requests * settings.MAX_PER_REQUEST_PROCESSING_SECONDS
EstimatedVisibilityTimeout == max_processing_requests * MAX_PER_REQUEST_PROCESSING_SECONDS

ReceiveVisibilityTimeout_Remaining ==
    (max_processing_requests - Len(all_processing_requests)) * MAX_PER_REQUEST_PROCESSING_SECONDS

\* the VisibilityTimeout argument of queue.receive_messages
ReceiveVisibilityTimeout == estimated_visibility_timeout

MaxProcessingRequestsExceeded_Strict(count) == count > max_processing_requests

\* if len(all_processing_requests) >= self.max_processing_requests
MaxProcessingRequestsExceeded(count) == count >= max_processing_requests

ExtendedRequests_Truncating(id, body) ==
    [i \in 1..Min(body.n, max_processing_requests - Len(all_processing_requests)) |->
       [msg |-> id, is_key |-> body.kind = "dict"]]

\* what all_processing_requests.extend(processing_requests) adds for a decoded body:
\* the items of an array, or the keys of an object (extend iterates a dict's keys)
ExtendedRequests(id, body) ==
    [i \in 1..body.n |-> [msg |-> id, is_key |-> body.kind = "dict"]]

DecodeMessage_TracksUndecodable(d, id, body) ==
    LET afterTry ==
          CASE body.kind = "invalid_json" ->
                 [d EXCEPT !.deleted[id] = @ + 1, !.processed = Append(@, id)]
            [] body.kind = "scalar" ->
                 [d EXCEPT !.raised = "TypeError"]
            [] OTHER ->
                 [d EXCEPT !.all = @ \o [i \in 1..body.n |-> [msg |-> id, is_key |-> body.kind = "dict"]],
                           !.processed = Append(@, id)]
    IN  IF afterTry.raised # "none" THEN afterTry
        ELSE IF Len(afterTry.all) >= max_processing_requests
             THEN [afterTry EXCEPT !.exceeded = TRUE]
             ELSE afterTry

DecodeMessage_KeepsUndecodable(d, id, body) ==
    LET afterTry ==
          CASE body.kind = "invalid_json" -> d
            [] body.kind = "scalar" ->
                 [d EXCEPT !.raised = "TypeError"]
            [] OTHER ->
                 [d EXCEPT !.all = @ \o [i \in 1..body.n |-> [msg |-> id, is_key |-> body.kind = "dict"]],
                           !.processed = Append(@, id)]
    IN  IF afterTry.raised # "none" THEN afterTry
        ELSE IF Len(afterTry.all) >= max_processing_requests
             THEN [afterTry EXCEPT !.exceeded = TRUE]
             ELSE afterTry

\* body of "for message in messages": try json.loads / len / extend / append,
\* except JSONDecodeError: message.delete(); then the capacity test.
\* d is the state of the drain; len() of a JSON scalar raises TypeError, which
\* the except clause does not catch.
DecodeMessage(d, id, body) ==
    LET afterTry ==
          CASE body.kind = "invalid_json" ->
                 [d EXCEPT !.deleted[id] = @ + 1]
            [] body.kind = "scalar" ->
                 [d EXCEPT !.raised = "TypeError"]
            [] OTHER ->
                 [d EXCEPT !.all = @ \o ExtendedRequests(id, body),
                           !.processed = Append(@, id)]
    IN  IF afterTry.raised # "none" THEN afterTry
        ELSE IF MaxProcessingRequestsExceeded(Len(afterTry.all))
             THEN [afterTry EXCEPT !.exceeded = TRUE]
             ELSE afterTry

\* the loop "for message in messages", left by break or by an exception
RECURSIVE ForMessageInMessages(_, _, _)
ForMessageInMessages(d, firstId, batch) ==
    IF batch = <<>> \/ d.exceeded \/ d.raised # "none" THEN d
    ELSE ForMessageInMessages(DecodeMessage(d, firstId, Head(batch)), firstId + 1, Tail(batch))

\* responses queue.receive_messages may give: no message (the queue is empty, or
\* short polling found none), or up to MaxNumberOfMessages messages
ReceivableBatches ==
    SeqsUpTo(Bodies, Min(MaxNumberOfMessages, MaxMessages - Len(messages)))

\* first resumption of the generator: the code before the while loop
GetRecords ==
    /\ pc = "get_records"
    /\ estimated_visibility_timeout' = EstimatedVisibilityTimeout
    /\ pc' = "drain"
    /\ UNCHANGED <<exc, configVars, receive_calls, messages, processed_messages, deleted,
                   visibility_changes, all_processing_requests, cursor, sinkVars,
                   summary_results, history, unit_log, chunkVars,
                   notifyVars, tableVars, alarmVars, mergeVars, requestsVars>>

\* one iteration of "while True": receive_messages and the handling of its response
ReceiveMessages ==
    /\ pc = "drain"
    /\ \E batch \in ReceivableBatches :
         LET d0 == [all |-> all_processing_requests,
                    processed |-> processed_messages,
                    deleted |-> deleted \o [i \in 1..Len(batch) |-> 0],
                    exceeded |-> FALSE,
                    raised |-> "none"]
             d == ForMessageInMessages(d0, Len(messages) + 1, batch)
         IN  /\ receive_calls' = Append(receive_calls,
                    [VisibilityTimeout |-> ReceiveVisibilityTimeout,
                     returned |-> Len(batch),
                     accumulated |-> Len(all_processing_requests)])
             /\ messages' = messages \o batch
             /\ visibility_changes' = visibility_changes \o [i \in 1..Len(batch) |-> <<>>]
             /\ all_processing_requests' = d.all
             /\ processed_messages' = d.processed
             /\ deleted' = d.deleted
             /\ exc' = d.raised
             /\ pc' = IF d.raised # "none" THEN "exit_output"
                      ELSE IF batch = <<>> \/ d.exceeded THEN "records"
                      ELSE "drain"
    /\ UNCHANGED <<configVars, estimated_visibility_timeout, cursor, sinkVars,
                   summary_results, history, unit_log, chunkVars,
                   notifyVars, tableVars, alarmVars, mergeVars, requestsVars>>

ExitIsClean_IgnoresException(e) == TRUE

ExitIsClean_Inverted(e) == e # "none"

ExitIsClean_UnlessBodyRaised(e) == e \in {"none", "put_records"}

\* if all(o is None for o in (exception_type, exception_value, traceback))
ExitIsClean(e) == e = "none"

\* InputCtxManager.__exit__(exception_type, exception_value, traceback); it returns
\* None, so an exception in flight goes on to the caller of execute()
InputExit ==
    /\ pc = "exit_input"
    /\ IF ExitIsClean(exc)
       THEN /\ deleted' = [i \in DOMAIN deleted |->
                              deleted[i] + Occurrences(processed_messages, i)]
            /\ UNCHANGED visibility_changes
       ELSE /\ visibility_changes' =
                 [i \in DOMAIN visibility_changes |->
                    visibility_changes[i] \o
                      [k \in 1..Occurrences(processed_messages, i) |->
                         SQS_VISIBILITYTIMEOUT_SECONDS_ON_EXCEPTION]]
            /\ UNCHANGED deleted
    /\ pc' = IF exc = "none" THEN "notify" ELSE "raised"
    /\ UNCHANGED <<exc, configVars, estimated_visibility_timeout, receive_calls, messages,
                   processed_messages, all_processing_requests, cursor, sinkVars,
                   summary_results, history, unit_log, chunkVars,
                   notifyVars, tableVars, alarmVars, mergeVars, requestsVars>>

(***************************************************************************)
(* Sink: OutputCtxManagerBase.put_record, the S3 sink's own put_record,    *)
(* and __exit__ of the sinks.  A sink record carries the unit it belongs   *)
(* to and its "is_valid" entry ("absent" when the mapping has no such key).*)
(***************************************************************************)
ValidFlags == {"true", "false", "absent"}

IntReturn(n) == [type |-> "int", value |-> n]

\* the S3 sink returns output_info: {} (value 0) or {"Bucket":..., "Key":...} (value 1)
DictReturn(n) == [type |-> "dict", value |-> n]

ChunkSizeReached_Strict(n) == n > chunk_size

\* if len(self._record_results) >= RESULT_RECORD_CHUNK_SIZE
ChunkSizeReached(n) == n >= chunk_size

\* payloads that are empty or null-like
EmptyPayloads == {"empty_array", "null"}

\* units processed so far for which something went wrong
Faults ==
    Cardinality({i \in DOMAIN unit_log :
                   unit_log[i].counted > 0 \/ unit_log[i].payload \in EmptyPayloads})

\* the writes of a put_records call on n records that may fail (0: none fails), when
\* "used" things went wrong before the call
SinkFailPoints(n, used) == IF used < MaxFaults THEN 0..n ELSE {0}

\* put_records of a sink: "for record in records:" writes one record after the other
\* (SQS.send_message, or the request update and the detailed results of DynamoDB)
\* with no try around the write, so the write that fails (the failAt-th; none when
\* failAt is not an index of records) ends the loop with its exception.  "sent" are
\* the records that reached the destination.
PutRecords(records, failAt) ==
    IF failAt \in 1..Len(records)
    THEN [sent |-> SubSeq(records, 1, failAt - 1), raised |-> "put_records"]
    ELSE [sent |-> records, raised |-> "none"]

BasePutRecord_Prepends(buf, record, failAt) ==
    LET appended == <<record>> \o buf
        w == PutRecords(appended, failAt)
    IN  IF ChunkSizeReached(Len(appended))
        THEN IF w.raised # "none"
             THEN [buf |-> appended, calls |-> <<appended>>, sent |-> <<w.sent>>,
                   ret |-> NoReturn, raised |-> w.raised]
             ELSE [buf |-> <<>>, calls |-> <<appended>>, sent |-> <<w.sent>>,
                   ret |-> IntReturn(Len(appended)), raised |-> "none"]
        ELSE [buf |-> appended, calls |-> <<>>, sent |-> <<>>, ret |-> IntReturn(0),
              raised |-> "none"]

\* OutputCtxManagerBase.put_record; failAt says which write of put_records fails, if
\* it is called.  On a raise the assignment self._record_results = [] is not reached.
BasePutRecord(buf, record, failAt) ==
    LET appended == Append(buf, record)
        w == PutRecords(appended, failAt)
    IN  IF ChunkSizeReached(Len(appended))
        THEN IF w.raised # "none"
             THEN [buf |-> appended, calls |-> <<appended>>, sent |-> <<w.sent>>,
                   ret |-> NoReturn, raised |-> w.raised]
             ELSE [buf |-> <<>>, calls |-> <<appended>>, sent |-> <<w.sent>>,
                   ret |-> IntReturn(Len(appended)), raised |-> "none"]
        ELSE [buf |-> appended, calls |-> <<>>, sent |-> <<>>, ret |-> IntReturn(0),
              raised |-> "none"]

\* S3BucketPandasDataFrameCsvFileOutputCtxManager.put_record; the upload raises when
\* failAt > 0.  record["is_valid"] raises KeyError when the key is absent; a record
\* whose is_valid is false is neither uploaded nor buffered.
S3PutRecord(buf, record, failAt) ==
    CASE record.is_valid = "absent" ->
           [buf |-> buf, calls |-> <<>>, sent |-> <<>>, ret |-> NoReturn, raised |-> "KeyError"]
      [] record.is_valid = "false" ->
           [buf |-> buf, calls |-> <<>>, sent |-> <<>>, ret |-> DictReturn(0), raised |-> "none"]
      [] OTHER ->
           IF failAt > 0
           THEN [buf |-> buf, calls |-> <<>>, sent |-> <<>>, ret |-> NoReturn,
                 raised |-> "upload_fileobj"]
           ELSE [buf |-> Append(buf, record), calls |-> <<>>, sent |-> <<>>,
                 ret |-> DictReturn(1), raised |-> "none"]

\* put_record of a sink of the given class
PutRecord(kind, buf, record, failAt) ==
    IF kind = "S3BucketPandasDataFrameCsvFileOutputCtxManager"
    THEN S3PutRecord(buf, record, failAt)
    ELSE BasePutRecord(buf, record, failAt)

ExitPutRecords_Nothing(buf) == <<>>

ExitPutRecords_SkipsOnException(buf) == IF buf # <<>> /\ exc = "none" THEN <<buf>> ELSE <<>>

\* the flush in __exit__ of every sink:
\* if self._record_results: self.put_records(self._record_results)
ExitPutRecords(buf) == IF buf # <<>> THEN <<buf>> ELSE <<>>

\* self.futures.append(self.executor.submit(update_item, ...)) of the DynamoDB
\* sink's put_records: one future per record whose iteration reached the submit,
\* that is the records written and the one whose detailed results raised after it
SubmittedUpdates(kind, calls, sent) ==
    IF kind # "DynamodbOutputCtxManager" \/ calls = <<>> THEN <<>>
    ELSE LET n == IF Len(sent[1]) < Len(calls[1]) THEN Len(sent[1]) + 1 ELSE Len(calls[1])
         IN  [k \in 1..n |-> [id |-> calls[1][k].id, awaited |-> FALSE]]

AwaitFutures_NoWait(fs) == fs

\* for f in self.futures: response = f.result(timeout=None)
AwaitFutures(fs) == [k \in DOMAIN fs |-> [fs[k] EXCEPT !.awaited = TRUE]]

\* __enter__: the sinks that define it return self; the S3 sink inherits
\* OutputCtxManagerBase.__enter__, whose body is "pass"
EnterReturnsSelf(kind) == kind # "S3BucketPandasDataFrameCsvFileOutputCtxManager"

\* OutputCtxManager.__exit__(*args): flushes whatever the exception state is; a raise
\* of put_records replaces the exception in flight
OutputExit ==
    /\ pc = "exit_output"
    /\ \E failAt \in SinkFailPoints(Len(record_results),
                                      Faults + (IF exc # "none" THEN 1 ELSE 0)) :
         LET calls == ExitPutRecords(record_results)
             w == PutRecords(record_results, failAt)
         IN  /\ exit_flushed' = calls
             /\ put_records_calls' = put_records_calls \o calls
             /\ sent_calls' = sent_calls \o (IF calls # <<>> THEN <<w.sent>> ELSE <<>>)
             /\ futures' =
                  LET submitted == futures \o SubmittedUpdates(sinkKind, calls, <<w.sent>>)
                  IN  IF calls # <<>> /\ w.raised # "none" THEN submitted
                      ELSE AwaitFutures(submitted)
             /\ exc' = IF calls # <<>> /\ w.raised # "none" THEN w.raised ELSE exc
    /\ pc' = IF inputKind = "none" THEN "exited" ELSE "exit_input"
    /\ UNCHANGED <<configVars, intakeVars, record_results, put_record_calls, put_return,
                   summary_results, history, unit_log, chunkVars,
                   notifyVars, tableVars, alarmVars, mergeVars, requestsVars>>

(***************************************************************************)
(* PredictionExecutor.execute: the body of the loop over get_records.      *)
(***************************************************************************)
\* how the generator fares when it resumes to produce the next unit.  request[s3uri_key]
\* raises TypeError on a str (a key of an object body) and KeyError on a request
\* without the key; otherwise the referenced object is resolved or it is not.  The
\* CSV reader intake looks every request up before it yields the first unit, so its
\* first resumption raises for any request of the drain and the later ones do not.
YieldOutcomes(u) ==
    IF inputKind = "SQSMessageS3InputCSVReaderCtxManager"
    THEN IF cursor > 0
         THEN {"ok", "unresolved"}
         ELSE LET keys == {i \in DOMAIN all_processing_requests :
                              all_processing_requests[i].is_key}
              IN  IF keys = {} THEN {"ok", "unresolved", "KeyError"}
                  ELSE {"TypeError"} \cup (IF 1 \in keys THEN {} ELSE {"KeyError"})
    ELSE IF u.is_key THEN {"TypeError"} ELSE {"ok", "unresolved", "KeyError"}

\* what the user's predictor does with a unit (when the step in question is reached)
\* "alarm_after_predict": predict calls set_predict_timeout and returns in time, and
\* the alarm goes off while postprocess_output runs
PredictorBehaviours ==
    {"ok", "pre_predict_hook_raises", "preprocess_input_raises", "predict_raises",
     "predict_timeout", "predict_not_dict", "alarm_after_predict",
     "postprocess_output_raises", "post_predict_hook_raises"}

\* info["is_valid"] of a yielded unit: the passthrough intake sets it, the image and
\* CSV reader intakes do not
InfoIsValid(kind, y) ==
    IF kind = "SQSMessagePassthroughCtxManager"
    THEN (IF y = "ok" THEN "true" ELSE "false")
    ELSE "absent"

\* info["errors"] of a yielded unit.  The image intake adds the message of
\* prepare_images to the request, the passthrough intake sets a DoesNotExist
\* message, and the CSV reader intake builds info anew after it stored the message.
InfoErrors(kind, y) ==
    IF y # "unresolved" THEN <<>>
    ELSE CASE kind = "SQSMessageS3InputImageCtxManager" -> <<"Exception while processing image">>
           [] kind = "SQSMessagePassthroughCtxManager" -> <<"DoesNotExist">>
           [] OTHER -> <<>>

\* the payload ("record") of a yielded unit: the image intake yields an empty array
\* and the CSV reader intake yields None for a resource that could not be read
Payload(kind, y) ==
    CASE kind = "SQSMessageS3InputImageCtxManager" ->
           (IF y = "ok" THEN "array" ELSE "empty_array")
      [] kind = "SQSMessageS3InputCSVReaderCtxManager" ->
           (IF y = "ok" THEN "csvreader" ELSE "null")
      [] OTHER -> "request"


\* hasattr(record, "any") and not record.any(): true of the empty array, false of
\* None, of a csv reader and of a dict, which have no attribute "any"
RecordIsEmpty(kind, y) == Payload(kind, y) = "empty_array"

UnitResult(raised, errors, predictions, branch, put, steps, appended) ==
    [raised |-> raised, errors |-> errors, predictions |-> predictions,
     branch |-> branch, put |-> put, steps |-> steps, appended |-> appended]

\* the ways through the loop body up to (not including) put_record
PreHookRaised == UnitResult("pre_predict_hook", 0, 0, "none", FALSE, <<"pre_predict_hook">>, <<>>)

InvalidSkipped ==
    UnitResult("none", 1, 0, "invalid", TRUE, <<"pre_predict_hook">>,
               <<"is_valid=False, record not processed, SKIPPING">>)

EmptySkipped == UnitResult("none", 1, 0, "empty", TRUE, <<"pre_predict_hook">>, <<>>)

PreprocessRaised ==
    UnitResult("preprocess_input", 0, 0, "none", FALSE,
               <<"pre_predict_hook", "preprocess_input">>, <<>>)

\* except PredictTimeoutError / except Exception (which also catches the
\* AssertionError of "assert isinstance(record_results, dict)")
PredictErrorMessage(b) ==
    CASE b = "predict_timeout" -> "set Predict Timeout value exceeded"
      [] b = "predict_not_dict" -> "AssertionError"
      [] OTHER -> "Exception"

PredictFailed(b) ==
    UnitResult("none", 1, 1, b, TRUE,
               <<"pre_predict_hook", "preprocess_input", "predict">>,
               <<PredictErrorMessage(b)>>)

PostprocessRaised ==
    UnitResult("postprocess_output", 0, 1, "predicted", FALSE,
               <<"pre_predict_hook", "preprocess_input", "predict", "postprocess_output">>,
               <<>>)

\* sigalrm_handler raises PredictTimeoutError while postprocess_output runs: the
\* alarm set in predict is only cancelled by signal.alarm(0) after postprocess_output
PostprocessInterrupted ==
    UnitResult("sigalrm_handler", 0, 1, "predicted", FALSE,
               <<"pre_predict_hook", "preprocess_input", "predict", "postprocess_output">>,
               <<>>)

Predicted ==
    UnitResult("none", 0, 1, "predicted", TRUE,
               <<"pre_predict_hook", "preprocess_input", "predict", "postprocess_output">>,
               <<>>)

UnitOutcome_PredictEscapes(kind, y, b) ==
    IF b = "pre_predict_hook_raises" THEN PreHookRaised
    ELSE IF InfoIsValid(kind, y) = "false" THEN InvalidSkipped
    ELSE IF RecordIsEmpty(kind, y) THEN EmptySkipped
    ELSE IF b = "preprocess_input_raises" THEN PreprocessRaised
    ELSE IF b = "predict_raises"
    THEN UnitResult("predict", 0, 0, b, FALSE,
                    <<"pre_predict_hook", "preprocess_input", "predict">>, <<>>)
    ELSE IF b \in {"predict_timeout", "predict_not_dict"} THEN PredictFailed(b)
    ELSE IF b = "postprocess_output_raises" THEN PostprocessRaised
    ELSE Predicted

UnitOutcome_TimeoutEscapes(kind, y, b) ==
    IF b = "pre_predict_hook_raises" THEN PreHookRaised
    ELSE IF InfoIsValid(kind, y) = "false" THEN InvalidSkipped
    ELSE IF RecordIsEmpty(kind, y) THEN EmptySkipped
    ELSE IF b = "preprocess_input_raises" THEN PreprocessRaised
    ELSE IF b = "predict_timeout"
    THEN UnitResult("PredictTimeoutError", 0, 0, b, FALSE,
                    <<"pre_predict_hook", "preprocess_input", "predict">>, <<>>)
    ELSE IF b \in {"predict_raises", "predict_not_dict"} THEN PredictFailed(b)
    ELSE IF b = "postprocess_output_raises" THEN PostprocessRaised
    ELSE Predicted

UnitOutcome_NoResultCheck(kind, y, b) ==
    IF b = "pre_predict_hook_raises" THEN PreHookRaised
    ELSE IF InfoIsValid(kind, y) = "false" THEN InvalidSkipped
    ELSE IF RecordIsEmpty(kind, y) THEN EmptySkipped
    ELSE IF b = "preprocess_input_raises" THEN PreprocessRaised
    ELSE IF b = "predict_not_dict"
    THEN UnitResult("none", 0, 1, b, TRUE,
                    <<"pre_predict_hook", "preprocess_input", "predict",
                      "postprocess_output">>, <<>>)
    ELSE IF b \in {"predict_raises", "predict_timeout"} THEN PredictFailed(b)
    ELSE IF b = "postprocess_output_raises" THEN PostprocessRaised
    ELSE Predicted

UnitOutcome_IgnoresIsValid(kind, y, b) ==
    IF b = "pre_predict_hook_raises" THEN PreHookRaised
    ELSE IF RecordIsEmpty(kind, y) THEN EmptySkipped
    ELSE IF b = "preprocess_input_raises" THEN PreprocessRaised
    ELSE IF b \in {"predict_raises", "predict_timeout", "predict_not_dict"}
    THEN PredictFailed(b)
    ELSE IF b = "postprocess_output_raises" THEN PostprocessRaised
    ELSE Predicted

\* the loop body up to (not including) put_record, for a unit yielded with outcome y
\* and a predictor behaving as b: the exception that escapes (if any), the increments
\* of the "errors" and "total_predictions" counters, the branch taken, whether
\* put_record is reached, the user's steps that were called and the messages
\* appended to info["errors"]
UnitOutcome(kind, y, b) ==
    IF b = "pre_predict_hook_raises" THEN PreHookRaised
    ELSE IF InfoIsValid(kind, y) = "false" THEN InvalidSkipped
    ELSE IF RecordIsEmpty(kind, y) THEN EmptySkipped
    ELSE IF b = "preprocess_input_raises" THEN PreprocessRaised
    ELSE IF b \in {"predict_raises", "predict_timeout", "predict_not_dict"}
    THEN PredictFailed(b)
    ELSE IF b = "alarm_after_predict" THEN PostprocessInterrupted
    ELSE IF b = "postprocess_output_raises" THEN PostprocessRaised
    ELSE Predicted

\* the outcomes and behaviours left for the next unit: once MaxFaults things went
\* wrong nothing goes wrong any more (a key of an object body has only one outcome),
\* and the predictor misbehaves only on a unit whose resource was resolved
AllowedYields(u) ==
    {y \in YieldOutcomes(u) : Faults < MaxFaults \/ y \in {"ok", "TypeError"}}

AllowedBehaviours(y) ==
    IF Faults < MaxFaults /\ y = "ok" THEN PredictorBehaviours ELSE {"ok"}

NoPut(buf) == [buf |-> buf, calls |-> <<>>, sent |-> <<>>, ret |-> NoReturn, raised |-> "none"]

\* output_ctxmgr.put_record(record_results): output_ctxmgr is what __enter__ returned
ExecutorPut(kind, buf, record, failAt) ==
    IF EnterReturnsSelf(kind)
    THEN PutRecord(kind, buf, record, failAt)
    ELSE [buf |-> buf, calls |-> <<>>, sent |-> <<>>, ret |-> NoReturn,
          raised |-> "AttributeError"]

\* whether _prepare_sns_notification_data(info) finds a request id and a topic.  The
\* image and CSV reader intakes copy the request into info, so it does when the
\* request carries "request_id" and a topic is named by the request or by
\* REQUESTS_COMPLETE_SNS_TOPIC_ARN; the passthrough intake yields the request as the
\* record and builds info without it
NotificationChoices(kind) ==
    IF kind = "SQSMessagePassthroughCtxManager" THEN {FALSE} ELSE BOOLEAN

\* sns_notifications[sns_topic_arn].append(request_id).  The request ids of one run
\* are far below SNS_MAX_MESSAGE_SIZE_BYTES (262144), so they make one group.
AppendRequestId(notifications, topic) ==
    IF \E k \in DOMAIN notifications : notifications[k].topic = topic
    THEN notifications
    ELSE Append(notifications, [topic |-> topic, groups |-> 1])

\* one iteration of "for record, info in input_ctxmgr.get_records(inputs)":
\* the generator produces the next unit and the loop body runs on it
ProcessRecord ==
    /\ pc = "records"
    /\ cursor < Len(all_processing_requests)
    /\ \E y \in AllowedYields(all_processing_requests[cursor + 1]) :
       \E b \in AllowedBehaviours(y),
          failAt \in SinkFailPoints(Len(record_results) + 1, Faults),
          notified \in NotificationChoices(inputKind) :
         IF y \in {"TypeError", "KeyError"}
         THEN /\ exc' = y
              /\ pc' = "exit_output"
              /\ UNCHANGED <<cursor, sinkVars, summary_results, history, unit_log,
                             sns_notifications>>
         ELSE LET o == UnitOutcome(inputKind, y, b)
                  rec == [id |-> cursor + 1,
                          is_valid |-> InfoIsValid(inputKind, y),
                          errors |-> InfoErrors(inputKind, y) \o o.appended,
                          body |-> IF o.branch = "predicted" THEN "result" ELSE "info"]
                  put == IF o.put THEN ExecutorPut(sinkKind, record_results, rec, failAt)
                         ELSE NoPut(record_results)
                  called == o.put /\ EnterReturnsSelf(sinkKind)
                  hooked == o.put /\ put.raised = "none"
                  raised == IF o.raised # "none" THEN o.raised
                            ELSE IF put.raised # "none" THEN put.raised
                            ELSE IF b = "post_predict_hook_raises" THEN "post_predict_hook"
                            ELSE "none"
              IN  /\ cursor' = cursor + 1
                  /\ record_results' = put.buf
                  /\ put_records_calls' = put_records_calls \o put.calls
                  /\ sent_calls' = sent_calls \o put.sent
                  /\ futures' = futures \o SubmittedUpdates(sinkKind, put.calls, put.sent)
                  /\ put_record_calls' = IF called THEN Append(put_record_calls, rec)
                                         ELSE put_record_calls
                  /\ put_return' = IF called THEN put.ret ELSE put_return
                  /\ summary_results' =
                       [summary_results EXCEPT !.errors = @ + o.errors,
                                               !.total_predictions = @ + o.predictions]
                  /\ history' =
                       [history EXCEPT
                          !.predict_raised = @ + (IF o.branch \in {"predict_raises", "predict_timeout"} THEN 1 ELSE 0),
                          !.not_mapping = @ + (IF o.branch = "predict_not_dict" THEN 1 ELSE 0),
                          !.skipped = @ + (IF o.branch \in {"invalid", "empty"} THEN 1 ELSE 0)]
                  /\ unit_log' = Append(unit_log,
                       [branch |-> o.branch,
                        is_valid |-> InfoIsValid(inputKind, y),
                        payload |-> Payload(inputKind, y),
                        steps |-> o.steps \o (IF hooked THEN <<"post_predict_hook">> ELSE <<>>),
                        errors |-> rec.errors,
                        counted |-> o.errors])
                  /\ sns_notifications' =
                       IF hooked /\ notified
                       THEN AppendRequestId(sns_notifications, "sns_topic_arn")
                       ELSE sns_notifications
                  /\ exc' = raised
                  /\ pc' = IF raised # "none" THEN "exit_output" ELSE "records"
                  /\ UNCHANGED exit_flushed
    /\ UNCHANGED <<configVars, estimated_visibility_timeout, receive_calls, messages,
                   processed_messages, deleted, visibility_changes, all_processing_requests,
                   chunkVars, publish_calls, published_message_count, tableVars, alarmVars, mergeVars, requestsVars>>

\* the generator is exhausted: the for loop ends and the with block is left
RecordsExhausted ==
    /\ pc = "records"
    /\ cursor = Len(all_processing_requests)
    /\ pc' = "exit_output"
    /\ UNCHANGED <<exc, configVars, intakeVars, sinkVars, summary_results, history, unit_log, chunkVars,
                   notifyVars, tableVars, alarmVars, mergeVars, requestsVars>>

(***************************************************************************)
(* PredictionExecutor._handle_sns_notifications and the end of execute().  *)
(***************************************************************************)
\* what SNS.publish may do: return, or raise one of the exceptions that SNS reports
PublishOutcomes == {"ok", "NotFoundException", "ClientError"}

PublishIsHandled_NotFoundOnly(outcome) == outcome \in {"ok", "NotFoundException"}

\* try: SNS.publish(...) except SNS.exceptions.NotFoundException / except ClientError
PublishIsHandled(outcome) == outcome \in {"ok", "NotFoundException", "ClientError"}

\* the SNS.publish calls of the two nested for loops, in order: for every topic, one
\* per group that serialize_json_and_chunk_by_bytes yields for its request ids
RECURSIVE PublishSequence(_)
PublishSequence(notifications) ==
    IF notifications = <<>> THEN <<>>
    ELSE [g \in 1..Head(notifications).groups |->
            [topic |-> Head(notifications).topic, group |-> g]]
           \o PublishSequence(Tail(notifications))

\* _handle_sns_notifications(notifications) when the k-th publish call has the
\* outcome outcomes[k]: the calls made, the count returned, the exception raised
HandleSnsNotifications(notifications, outcomes) ==
    LET seq == PublishSequence(notifications)
        unhandled == {k \in DOMAIN seq : ~PublishIsHandled(outcomes[k])}
        last == IF unhandled = {} THEN Len(seq)
                ELSE CHOOSE k \in unhandled : \A j \in unhandled : k <= j
    IN  [calls |-> [k \in 1..last |->
                      [topic |-> seq[k].topic, group |-> seq[k].group,
                       outcome |-> outcomes[k]]],
         count |-> Cardinality({k \in 1..last : outcomes[k] = "ok"}),
         raised |-> IF unhandled = {} THEN "none" ELSE outcomes[last]]

AverageIsComputed_Always(total_predictions) == TRUE

\* if summary_results["total_predictions"] > 0
AverageIsComputed(total_predictions) == total_predictions > 0

\* the code after the with block: the notifications are published, the average
\* duration per prediction is derived and execute() returns summary_results
ExecuteReturn ==
    /\ pc = "notify"
    /\ \E outcomes \in [DOMAIN PublishSequence(sns_notifications) -> PublishOutcomes] :
         LET h == HandleSnsNotifications(sns_notifications, outcomes)
             divides == AverageIsComputed(summary_results.total_predictions)
             raised == IF h.raised # "none" THEN h.raised
                       ELSE IF divides /\ summary_results.total_predictions = 0
                       THEN "ZeroDivisionError"
                       ELSE "none"
         IN  /\ publish_calls' = h.calls
             /\ published_message_count' = h.count
             /\ summary_results' =
                  IF raised = "none" /\ divides
                  THEN [summary_results EXCEPT !.per_prediction_duration = "set"]
                  ELSE summary_results
             /\ exc' = raised
             /\ pc' = IF raised = "none" THEN "returned" ELSE "raised"
    /\ UNCHANGED <<configVars, intakeVars, sinkVars, history, unit_log, chunkVars,
                   sns_notifications, tableVars, alarmVars, mergeVars, requestsVars>>

\* a caller calls _handle_sns_notifications(notifications)
HandleSnsNotificationsCall ==
    /\ pc = "notify_call"
    /\ \E outcomes \in [DOMAIN PublishSequence(sns_notifications) -> PublishOutcomes] :
         LET h == HandleSnsNotifications(sns_notifications, outcomes)
         IN  /\ publish_calls' = h.calls
             /\ published_message_count' = h.count
             /\ exc' = h.raised
             /\ pc' = IF h.raised = "none" THEN "notify_done" ELSE "notify_raised"
    /\ UNCHANGED <<configVars, intakeVars, sinkVars, summary_results, history, unit_log,
                   chunkVars, sns_notifications, tableVars, alarmVars, mergeVars, requestsVars>>

(***************************************************************************)
(* A caller that drives a sink directly: with sink: sink.put_record(...)   *)
(***************************************************************************)
\* the records a caller hands over: a result, or the info of a unit that ended in
\* error (with its errors list), whose "is_valid" entry is true, false or absent
CallerRecords(id) ==
    {[id |-> id, is_valid |-> "true", errors |-> <<>>, body |-> "result"],
     [id |-> id, is_valid |-> "true", errors |-> <<"Exception">>, body |-> "info"],
     [id |-> id, is_valid |-> "false", errors |-> <<"DoesNotExist">>, body |-> "info"],
     [id |-> id, is_valid |-> "absent", errors |-> <<>>, body |-> "result"]}

CallerPutRecord ==
    /\ pc = "sink_body"
    /\ Len(put_record_calls) < MaxPuts
    /\ \E rec \in CallerRecords(Len(put_record_calls) + 1),
          failAt \in SinkFailPoints(Len(record_results) + 1, Faults) :
         LET put == PutRecord(sinkKind, record_results, rec, failAt)
         IN  /\ record_results' = put.buf
             /\ put_records_calls' = put_records_calls \o put.calls
             /\ sent_calls' = sent_calls \o put.sent
             /\ futures' = futures \o SubmittedUpdates(sinkKind, put.calls, put.sent)
             /\ put_record_calls' = Append(put_record_calls, rec)
             /\ put_return' = put.ret
             /\ exc' = put.raised
             /\ pc' = IF put.raised # "none" THEN "exit_output" ELSE "sink_body"
    /\ UNCHANGED <<configVars, intakeVars, exit_flushed, summary_results, history, unit_log,
                   chunkVars,
                   notifyVars, tableVars, alarmVars, mergeVars, requestsVars>>

\* the caller's own code raises inside the with block
CallerRaises ==
    /\ pc = "sink_body"
    /\ exc' = "DummyException"
    /\ pc' = "exit_output"
    /\ UNCHANGED <<configVars, intakeVars, sinkVars, summary_results, history, unit_log, chunkVars,
                   notifyVars, tableVars, alarmVars, mergeVars, requestsVars>>

\* the with block ends normally
CallerLeaves ==
    /\ pc = "sink_body"
    /\ pc' = "exit_output"
    /\ UNCHANGED <<exc, configVars, intakeVars, sinkVars, summary_results, history, unit_log, chunkVars,
                   notifyVars, tableVars, alarmVars, mergeVars, requestsVars>>

(***************************************************************************)
(* serialize_json_and_chunk_by_bytes(items, max_bytes).  An item is known   *)
(* by its index in the argument and by the size in bytes of its JSON text; *)
(* a JSON array string is known by the items it holds, in order.           *)
(***************************************************************************)
\* the initial value of last_json_str
None == [none |-> TRUE, items |-> <<>>]

\* json.dumps(list): the text "[" item ", " item ... "]"
JsonDumps(list) == [none |-> FALSE, items |-> list]

RECURSIVE ItemsBytes(_)
ItemsBytes(list) ==
    IF list = <<>> THEN 0 ELSE items[Head(list)] + ItemsBytes(Tail(list))

\* len(json_str.encode("utf8")): two brackets, the items, and ", " between items
EncodedLen(json_str) ==
    IF json_str.items = <<>> THEN 2
    ELSE 2 + ItemsBytes(json_str.items) + 2 * (Len(json_str.items) - 1)

\* chunked_items[-1:]
LastItems(list) == IF list = <<>> THEN <<>> ELSE <<list[Len(list)]>>

\* chunked_items[:-1]
ButLastItems(list) == IF list = <<>> THEN <<>> ELSE SubSeq(list, 1, Len(list) - 1)

\* one iteration of "for item in items", the yield inside it included
ChunkerNextItem ==
    /\ pc = "chunk_loop"
    /\ item_index < Len(items)
    /\ LET json_str == JsonDumps(chunked_items)
           over == chunked_items # <<>> /\ EncodedLen(json_str) > max_bytes
       IN  IF over /\ is_initial
           THEN /\ exc' = "ValueError"
                /\ pc' = "chunk_raised"
                /\ UNCHANGED chunkVars
           ELSE /\ yielded' = IF over THEN Append(yielded, last_json_str) ELSE yielded
                /\ last_json_str' = IF chunked_items # <<>> THEN json_str ELSE last_json_str
                /\ chunked_items' = Append(IF over THEN LastItems(chunked_items)
                                           ELSE chunked_items, item_index + 1)
                /\ is_initial' = FALSE
                /\ item_index' = item_index + 1
                /\ UNCHANGED <<pc, exc, items, max_bytes>>
    /\ UNCHANGED <<configVars, intakeVars, sinkVars, summary_results, history, unit_log,
                   notifyVars, tableVars, alarmVars, mergeVars, requestsVars>>

\* the code after the for loop; then the generator is exhausted
ChunkerFinish ==
    /\ pc = "chunk_loop"
    /\ item_index = Len(items)
    /\ yielded' =
         IF chunked_items = <<>> THEN yielded
         ELSE IF EncodedLen(JsonDumps(chunked_items)) >= max_bytes
         THEN yielded \o <<JsonDumps(ButLastItems(chunked_items)),
                           JsonDumps(LastItems(chunked_items))>>
         ELSE Append(yielded, JsonDumps(chunked_items))
    /\ pc' = "chunk_done"
    /\ UNCHANGED <<exc, configVars, intakeVars, sinkVars, summary_results, history, unit_log,
                   items, max_bytes, item_index, is_initial, last_json_str, chunked_items,
                   notifyVars, tableVars, alarmVars, mergeVars, requestsVars>>

(***************************************************************************)
(* Specifications.                                                         *)
(***************************************************************************)
\* summary_results = Counter(); "per_prediction_duration" is a key that execute()
\* adds at its end
NewSummary == [errors |-> 0, total_predictions |-> 0, per_prediction_duration |-> "absent"]

InitCommon ==
    /\ exc = "none"
    /\ sinkKind \in SinkKinds
    /\ chunk_size \in 1..MaxChunkSize
    /\ estimated_visibility_timeout = 0
    /\ receive_calls = <<>>
    /\ messages = <<>>
    /\ processed_messages = <<>>
    /\ deleted = <<>>
    /\ visibility_changes = <<>>
    /\ all_processing_requests = <<>>
    /\ cursor = 0
    /\ record_results = <<>>
    /\ put_records_calls = <<>>
    /\ put_record_calls = <<>>
    /\ put_return = NoReturn
    /\ futures = <<>>
    /\ exit_flushed = <<>>
    /\ summary_results = NewSummary
    /\ history = [predict_raised |-> 0, not_mapping |-> 0, skipped |-> 0]
    /\ unit_log = <<>>
    /\ sent_calls = <<>>
    /\ items = <<>>
    /\ max_bytes = 0
    /\ item_index = 0
    /\ is_initial = TRUE
    /\ last_json_str = None
    /\ chunked_items = <<>>
    /\ yielded = <<>>
    /\ publish_calls = <<>>
    /\ published_message_count = 0
    /\ results_table = {}
    /\ put_item_calls = <<>>
    /\ alarm = 0
    /\ PROCESSING_TIMEOUT_SECONDS = 0
    /\ set_predict_timeout_calls = <<>>
    /\ merged_result = {}
    /\ update_item_calls = <<>>
    /\ applied_updates = {}
    /\ requests_row = 0

\* execute() has built both context managers and entered the with block
Init ==
    /\ InitCommon
    /\ info = {}
    /\ predict_result = {}
    /\ sns_notifications = <<>>
    /\ pc = "get_records"
    /\ inputKind \in InputKinds
    /\ max_processing_requests \in 1..MaxCapacity

Next ==
    \/ GetRecords
    \/ ReceiveMessages
    \/ ProcessRecord
    \/ RecordsExhausted
    \/ OutputExit
    \/ InputExit
    \/ ExecuteReturn

Spec == Init /\ [][Next]_vars

\* a caller has built a sink and entered its with block
SinkInit ==
    /\ InitCommon
    /\ info = {}
    /\ predict_result = {}
    /\ sns_notifications = <<>>
    /\ pc = "sink_body"
    /\ inputKind = "none"
    /\ max_processing_requests = 1

SinkNext ==
    \/ CallerPutRecord
    \/ CallerRaises
    \/ CallerLeaves
    \/ OutputExit

SinkSpec == SinkInit /\ [][SinkNext]_vars

\* the notifications a caller may pass: some of the topics, each once, each with
\* the number of groups its request ids are serialized into
RECURSIVE NotificationInputs(_)
NotificationInputs(topics) ==
    {<<>>} \cup
    UNION {{<<[topic |-> t, groups |-> g]>> \o rest :
              g \in 1..MaxGroups, rest \in NotificationInputs(topics \ {t})} :
           t \in topics}

\* _handle_sns_notifications is about to be called on its own (it is a
\* staticmethod); no sink, intake or summary is involved
NotifyInit ==
    /\ InitCommon
    /\ info = {}
    /\ predict_result = {}
    /\ pc = "notify_call"
    /\ inputKind = "none"
    /\ sinkKind = "SQSRecordOutputCtxManager"
    /\ chunk_size = 1
    /\ max_processing_requests = 1
    /\ sns_notifications \in NotificationInputs(1..MaxTopics)

NotifyNext == HandleSnsNotificationsCall

NotifySpec == NotifyInit /\ [][NotifyNext]_vars

\* serialize_json_and_chunk_by_bytes has been called with items and max_bytes
ChunkInit ==
    /\ pc = "chunk_loop"
    /\ exc = "none"
    /\ inputKind = "none"
    /\ sinkKind = "none"
    /\ max_processing_requests = 1
    /\ chunk_size = 1
    /\ estimated_visibility_timeout = 0
    /\ receive_calls = <<>>
    /\ messages = <<>>
    /\ processed_messages = <<>>
    /\ deleted = <<>>
    /\ visibility_changes = <<>>
    /\ all_processing_requests = <<>>
    /\ cursor = 0
    /\ record_results = <<>>
    /\ put_records_calls = <<>>
    /\ put_record_calls = <<>>
    /\ put_return = NoReturn
    /\ futures = <<>>
    /\ exit_flushed = <<>>
    /\ summary_results = NewSummary
    /\ history = [predict_raised |-> 0, not_mapping |-> 0, skipped |-> 0]
    /\ unit_log = <<>>
    /\ sent_calls = <<>>
    /\ items \in SeqsUpTo(1..MaxItemBytes, MaxItems)
    /\ max_bytes \in 1..MaxBytes
    /\ item_index = 0
    /\ is_initial = TRUE
    /\ last_json_str = None
    /\ chunked_items = <<>>
    /\ yielded = <<>>
    /\ info = {}
    /\ predict_result = {}
    /\ sns_notifications = <<>>
    /\ publish_calls = <<>>
    /\ published_message_count = 0
    /\ results_table = {}
    /\ put_item_calls = <<>>
    /\ alarm = 0
    /\ PROCESSING_TIMEOUT_SECONDS = 0
    /\ set_predict_timeout_calls = <<>>
    /\ merged_result = {}
    /\ update_item_calls = <<>>
    /\ applied_updates = {}
    /\ requests_row = 0

ChunkNext ==
    \/ ChunkerNextItem
    \/ ChunkerFinish

ChunkSpec == ChunkInit /\ [][ChunkNext]_vars

TypeOK ==
    /\ pc \in {"get_records", "drain", "records", "sink_body", "exit_output", "exit_input",
               "notify", "returned", "raised", "exited", "chunk_loop", "chunk_done",
               "chunk_raised", "notify_call", "notify_done", "notify_raised",
               "table_idle", "table_raised", "predicting", "alarm_raised",
               "merge_call", "merge_done", "updating", "updates_done"}
    /\ requests_row \in 0..Len(update_item_calls)
    /\ alarm \in 0..MaxTimeout
    /\ published_message_count \in 0..Len(publish_calls)
    /\ cursor \in 0..Len(all_processing_requests)
    /\ Len(unit_log) = cursor
    /\ Len(sent_calls) = Len(put_records_calls)
    /\ item_index \in 0..Len(items)
    /\ Len(deleted) = Len(messages)
    /\ Len(visibility_changes) = Len(messages)

(***************************************************************************)
(* Properties.                                                             *)
(***************************************************************************)
Tracked == Range(processed_messages)

\* units of all_processing_requests that came from message id
UnitsOf(id) == {i \in DOMAIN all_processing_requests : all_processing_requests[i].msg = id}

\* the scoped run has been left (both __exit__ methods have run)
ScopeExited == pc \in {"notify", "returned", "raised"}

CleanExit == pc \in {"notify", "returned"}

\* C1: when the scoped run exits with an exception, every tracked message has had its
\* visibility reset (once) to SQS_VISIBILITYTIMEOUT_SECONDS_ON_EXCEPTION, no tracked
\* message has been deleted, and the exception goes on to the caller: execute()
\* does not return.
C1_ReleasedOnException ==
    /\ pc = "raised" =>
         /\ exc # "none"
         /\ \A i \in Tracked :
              /\ visibility_changes[i] = <<SQS_VISIBILITYTIMEOUT_SECONDS_ON_EXCEPTION>>
              /\ deleted[i] = 0
    /\ CleanExit => exc = "none"

C1_Witness ==
    /\ pc = "raised"
    /\ Len(processed_messages) >= 2
    /\ cursor >= 1
    /\ \A i \in Tracked : visibility_changes[i] # <<>>

\* ids of the records given to put_record so far, in call order
HandedToSink == [i \in DOMAIN put_record_calls |-> put_record_calls[i].id]

\* exceptions that would come out of the predict call or of the check of its result
PredictExceptions == {"predict", "PredictTimeoutError", "AssertionError"}

C3_NoTruncation ==
    /\ \A id \in Tracked :
         messages[id].kind = "list" => Cardinality(UnitsOf(id)) = messages[id].n
    /\ CleanExit => cursor = Len(all_processing_requests)

C3_Witness ==
    /\ pc = "returned"
    /\ Len(all_processing_requests) > max_processing_requests
    /\ Len(processed_messages) >= 2
    /\ \A id \in Tracked : messages[id].kind = "list"
    /\ cursor = Len(all_processing_requests)

LastAccepted == processed_messages[Len(processed_messages)]

\* C4: every receive_messages call returns at most one message; none is issued when
\* the accumulated count has reached the capacity or after an empty response; so the
\* accumulated count stays below the capacity plus the size of the last accepted message.
C4_BoundedDrain ==
    /\ \A i \in DOMAIN receive_calls :
         /\ receive_calls[i].returned <= 1
         /\ receive_calls[i].accumulated < max_processing_requests
         /\ i > 1 => receive_calls[i - 1].returned > 0
    /\ pc = "drain" => Len(all_processing_requests) < max_processing_requests
    /\ processed_messages # <<>> =>
         Len(all_processing_requests) <
            max_processing_requests + Cardinality(UnitsOf(LastAccepted))

C4_Witness ==
    /\ pc = "records"
    /\ Len(receive_calls) >= 2
    /\ Len(all_processing_requests) > max_processing_requests
    /\ receive_calls[Len(receive_calls)].returned = 1

\* C5: after a clean exit every tracked message has been deleted exactly once and
\* none has had its visibility reset.
C5_DeletedOnCleanExit ==
    CleanExit =>
      \A i \in Tracked : deleted[i] = 1 /\ visibility_changes[i] = <<>>

C5_Witness ==
    /\ pc = "returned"
    /\ Len(processed_messages) >= 2
    /\ cursor >= 2

\* C6: no message is both deleted and visibility-reset, at any point of the run.
C6_NeverDeletedAndReleased ==
    \A i \in DOMAIN messages : ~(deleted[i] > 0 /\ visibility_changes[i] # <<>>)

C6_Witness ==
    /\ pc = "raised"
    /\ \E i \in DOMAIN messages : deleted[i] > 0
    /\ \E i \in DOMAIN messages : visibility_changes[i] # <<>>

\* C7: every receive_messages call of the drain is given the visibility timeout
\* max_processing_requests * MAX_PER_REQUEST_PROCESSING_SECONDS, the value computed
\* before the first call, however many messages have been received.
C7_LeaseConstant ==
    /\ pc # "get_records" =>
         estimated_visibility_timeout =
            max_processing_requests * MAX_PER_REQUEST_PROCESSING_SECONDS
    /\ \A i \in DOMAIN receive_calls :
         receive_calls[i].VisibilityTimeout =
            max_processing_requests * MAX_PER_REQUEST_PROCESSING_SECONDS

C7_Witness ==
    /\ Len(receive_calls) >= 3
    /\ Len(all_processing_requests) >= 1
    /\ receive_calls[3].accumulated >= 1

BaseSink == sinkKind # "S3BucketPandasDataFrameCsvFileOutputCtxManager"

\* records number a..b given to put_record
PutSlice(a, b) == [i \in 1..(b - a + 1) |-> put_record_calls[a + i - 1]]

C9_BufferBelowChunkSize ==
    (pc = "sink_body" /\ put_record_calls # <<>>) =>
       Len(record_results) <= chunk_size - 1

\* C10: __exit__ of the sink, whether or not an exception is in flight, hands the
\* whole buffer to put_records when the buffer is not empty, and an exception in
\* flight is still in flight afterwards.
C10_ExitFlushes ==
    [][(pc = "exit_output" /\ pc' # "exit_output") =>
          /\ record_results # <<>> =>
               /\ exit_flushed' = <<record_results>>
               /\ put_records_calls' = Append(put_records_calls, record_results)
          /\ exc # "none" => exc' # "none"]_vars

C10_Witness ==
    /\ pc = "exit_input"
    /\ exc \in {"post_predict_hook", "preprocess_input", "KeyError"}
    /\ Len(record_results) >= 1
    /\ exit_flushed = <<record_results>>

PredictTimeoutMessage == "set Predict Timeout value exceeded"

\* units processed so far whose handling added one to the "errors" counter
CountedUnits == {i \in DOMAIN unit_log : unit_log[i].counted = 1}

UserStepExceptions ==
    {"pre_predict_hook", "preprocess_input", "postprocess_output", "post_predict_hook"}
      \cup PredictExceptions

\* C12 as claimed: whichever user-supplied step raises (pre_predict_hook,
\* preprocess_input, predict, postprocess_output, post_predict_hook), the exception
\* does not leave the loop body: none is ever in flight outside it, and every unit
\* yielded so far has been handed to put_record.
C12_UserExceptionsContained ==
    /\ exc \notin UserStepExceptions
    /\ EnterReturnsSelf(sinkKind) =>
         \A i \in DOMAIN unit_log : Occurrences(HandedToSink, i) = 1

IsValidFalseMessage == "is_valid=False, record not processed, SKIPPING"

\* units processed so far for which predict was called
PredictedUnits == {i \in DOMAIN unit_log : "predict" \in Range(unit_log[i].steps)}

C14_EmptyPayloadSkipped ==
    \A i \in DOMAIN unit_log :
       unit_log[i].payload \in EmptyPayloads =>
         /\ i \notin PredictedUnits
         /\ "preprocess_input" \notin Range(unit_log[i].steps)
         /\ i \in CountedUnits
         /\ EnterReturnsSelf(sinkKind) =>
              /\ Occurrences(HandedToSink, i) = 1
              /\ \A k \in DOMAIN put_record_calls :
                   put_record_calls[k].id = i => put_record_calls[k].body = "info"

\* the records that are buffered by the sink or were handed to put_records
KeptRecords == Range(record_results) \cup UNION {Range(put_records_calls[j]) : j \in DOMAIN put_records_calls}

\* C15 as claimed: on every sink class, as long as every put_record call has
\* returned, each record that carries errors and was given to put_record is either
\* buffered for the next flush or has been handed to put_records: none is dropped.
C15_ErroredRecordsKept ==
    (pc = "sink_body" /\ exc = "none") =>
       \A k \in DOMAIN put_record_calls :
          put_record_calls[k].errors # <<>> => put_record_calls[k] \in KeptRecords

\* messages received so far whose body is not JSON
Undecodable == {id \in DOMAIN messages : messages[id].kind = "invalid_json"}

\* C16: a received message whose body is not JSON has been deleted exactly once (in
\* the drain), is not tracked, so that __exit__ neither deletes it again nor resets
\* its visibility, contributes no unit, and right after it the drain goes on to the
\* next receive_messages call with no exception in flight.
C16_UndecodableDiscarded ==
    /\ \A id \in Undecodable :
         /\ deleted[id] = 1
         /\ id \notin Tracked
         /\ visibility_changes[id] = <<>>
         /\ UnitsOf(id) = {}
    /\ (/\ receive_calls # <<>>
        /\ receive_calls[Len(receive_calls)].returned >= 1
        /\ Len(messages) \in Undecodable) =>
          /\ pc = "drain"
          /\ exc = "none"

C16_Witness ==
    /\ pc = "returned"
    /\ Len(messages) = 2
    /\ Undecodable = {1}
    /\ deleted = <<1, 1>>
    /\ processed_messages = <<2>>
    /\ Len(receive_calls) = 3
    /\ cursor >= 1

\* C17 as claimed: a tracked message whose body is a single JSON object has
\* contributed exactly one unit to the accumulated requests, and that unit is the
\* object itself (not one of its keys).
C17_ObjectBodyIsOneUnit ==
    \A id \in Tracked :
       messages[id].kind = "dict" =>
         /\ Cardinality(UnitsOf(id)) = 1
         /\ \A i \in UnitsOf(id) : ~all_processing_requests[i].is_key

\* C18 as claimed: a request that lacks the key naming its resource does not make
\* the stream of units fail (no KeyError leaves the generator); a unit is marked
\* is_valid = False only together with an explanatory error of its own, and a unit
\* whose resource was found carries neither.
C18_MissingKeyMarksOnlyThatUnit ==
    /\ exc # "KeyError"
    /\ \A i \in DOMAIN unit_log :
         /\ unit_log[i].is_valid = "false" => unit_log[i].errors # <<>>
         /\ unit_log[i].payload \in {"array", "csvreader"} =>
              /\ unit_log[i].is_valid # "false"
              /\ unit_log[i].errors \in {<<>>, <<PredictErrorMessage("predict_raises")>>,
                                         <<PredictErrorMessage("predict_timeout")>>,
                                         <<PredictErrorMessage("predict_not_dict")>>}

\* C19 as claimed: in every put_records call of the SQS and DynamoDB sinks, a write
\* that fails keeps at most its own record from the destination: all the other
\* records of the call are written.
C19_SiblingWritesIndependent ==
    BaseSink =>
      \A j \in DOMAIN put_records_calls :
         /\ j \in DOMAIN sent_calls
         /\ Len(put_records_calls[j]) - Len(sent_calls[j]) <= 1

\* every item alone, as a one-element JSON array, fits in max_bytes
SingleItemsFit == \A i \in DOMAIN items : EncodedLen(JsonDumps(<<i>>)) <= max_bytes

\* C20 as claimed: when max_bytes is at least the size of every single item (even
\* with the brackets of its own group), every group yielded so far by
\* serialize_json_and_chunk_by_bytes is at most max_bytes long once encoded.
C20_GroupsWithinLimit ==
    SingleItemsFit =>
      \A k \in DOMAIN yielded :
         ~yielded[k].none => EncodedLen(yielded[k]) <= max_bytes

\* the items of the groups yielded so far, one group after the other
RECURSIVE ConcatGroups(_)
ConcatGroups(groups) ==
    IF groups = <<>> THEN <<>>
    ELSE Head(groups).items \o ConcatGroups(Tail(groups))

\* C21 as claimed: when max_bytes is at least the size of every single item, the
\* groups yielded by a finished call, put one after the other, are the input list:
\* each item once, in input order.
C21_GroupsReconstructItems ==
    (pc = "chunk_done" /\ SingleItemsFit) =>
       ConcatGroups(yielded) = [i \in 1..Len(items) |-> i]

\* the first item alone is longer than max_bytes
FirstItemOversize == items # <<>> /\ items[1] > max_bytes

\* C22 as claimed: a call whose first item alone is longer than max_bytes yields
\* nothing and does not finish normally (it raises ValueError).
C22_OversizeFirstItemRaises ==
    FirstItemOversize =>
       /\ yielded = <<>>
       /\ pc # "chunk_done"

\* C23 as claimed: every value yielded is a JSON array string with at least one item
\* (checked for calls in which every single item fits in max_bytes).
C23_NoEmptyGroup ==
    SingleItemsFit =>
       \A k \in DOMAIN yielded :
          /\ ~yielded[k].none
          /\ yielded[k].items # <<>>

\* the sink's __exit__ called put_records and that call raised
ExitFlushRaised ==
    /\ exit_flushed # <<>>
    /\ sent_calls # <<>>
    /\ sent_calls[Len(sent_calls)] # put_records_calls[Len(put_records_calls)]

\* C28: when the put_records call made by the sink's __exit__ raises, the intake's
\* __exit__ is entered with an exception in flight, and once the scope is left no
\* tracked message has been deleted, each has had its visibility reset, and
\* execute() has raised.
C28_FlushFailureReleases ==
    ExitFlushRaised =>
       /\ exc # "none"
       /\ pc \in {"exit_input", "raised"}
       /\ \A id \in Tracked : deleted[id] = 0
       /\ pc = "raised" =>
            \A id \in Tracked :
               visibility_changes[id] = <<SQS_VISIBILITYTIMEOUT_SECONDS_ON_EXCEPTION>>

C28_Witness ==
    /\ pc = "raised"
    /\ ExitFlushRaised
    /\ exc = "put_records"
    /\ Len(processed_messages) >= 1
    /\ cursor = Len(all_processing_requests)
    /\ unit_log[cursor].branch = "predicted"
    /\ "post_predict_hook" \in Range(unit_log[cursor].steps)

\* C30 as claimed: once the scope has been left, every message received during the
\* drain, whatever its body, has been deleted or has had its visibility reset.
C30_NoMessageLeftLeased ==
    ScopeExited =>
       \A id \in DOMAIN messages : deleted[id] > 0 \/ visibility_changes[id] # <<>>

\* the unit ids of the records given to the c-th put_records call, in order
BulkWrite(c) == [k \in DOMAIN put_records_calls[c] |-> put_records_calls[c][k].id]

\* s is strictly increasing
Increasing(s) == \A a, b \in DOMAIN s : a < b => s[a] < s[b]

\* C25: records are given to put_record in the order their units were yielded, every
\* put_records call carries its records in that order, and when the record of a
\* unit is in a put_records call, the record of every earlier unit is in that call
\* or in an earlier one.
C25_SunkInYieldOrder ==
    /\ Increasing(HandedToSink)
    /\ \A c \in DOMAIN put_records_calls :
         /\ Increasing(BulkWrite(c))
         /\ Range(BulkWrite(c)) \subseteq Range(HandedToSink)
    /\ \A c \in DOMAIN put_records_calls :
         \A j \in Range(BulkWrite(c)), i \in Range(HandedToSink) :
            i < j => \E c1 \in 1..c : i \in Range(BulkWrite(c1))

C25_Witness ==
    /\ pc = "returned"
    /\ chunk_size = 2
    /\ cursor = 3
    /\ Len(put_records_calls) = 2
    /\ BulkWrite(1) = <<1, 2>>
    /\ BulkWrite(2) = <<3>>

\* C29 as claimed: the alarm set by set_predict_timeout never goes off after predict
\* has returned: sigalrm_handler raises in no step that follows predict, for no unit.
C29_NoTimeoutAfterPredict == exc # "sigalrm_handler"

\* the run is over (or leaving) and its intake never produced a unit
EmptyRun == ScopeExited /\ pc # "notify" /\ all_processing_requests = <<>>

\* C26: a run whose intake yields no unit processes nothing, writes nothing to the
\* sink (neither a record nor a bulk write), publishes nothing, reports zero
\* predictions and no average duration per prediction, and does not divide by zero.
C26_EmptyRunReturnsZero ==
    EmptyRun =>
        /\ exc # "ZeroDivisionError"
        /\ cursor = 0
        /\ unit_log = <<>>
        /\ put_record_calls = <<>>
        /\ put_records_calls = <<>>
        /\ exit_flushed = <<>>
        /\ publish_calls = <<>>
        /\ summary_results = NewSummary

\* the queue was empty: the one receive call returned nothing and execute() returned
C26_Witness ==
    /\ EmptyRun
    /\ pc = "returned"
    /\ Len(receive_calls) = 1
    /\ messages = <<>>
    /\ summary_results.total_predictions = 0
    /\ summary_results.per_prediction_duration = "absent"

\* the outcome and the destination of the publish calls, in the order they were made
PublishedGroups == [k \in DOMAIN publish_calls |->
                      [topic |-> publish_calls[k].topic, group |-> publish_calls[k].group]]

FailedPublishes == {k \in DOMAIN publish_calls : publish_calls[k].outcome # "ok"}

DetailResults == [s3_uri : {"absent", "s3://bucket/a", "s3://bucket/b"}, score : 1..MaxScore]

\* md5(str(sorted(flattened_result))): a digest of the values of the result, taken
\* in the order of their keys (results without sort key are never hashed)
HashKey(result) == <<result.s3_uri, result.score>>

\* output_item: the flattened result with its "hashkey"
OutputItem(result) == [hashkey |-> HashKey(result), s3_uri |-> result.s3_uri,
                       score |-> result.score]

\* the key schema of the detailed-results table: hashkey (HASH), s3_uri (RANGE)
RowKey(item) == <<item.hashkey, item.s3_uri>>

\* a put of one item: the row with the same key, if any, is replaced
PutItem(table, item) == {row \in table : RowKey(row) # RowKey(item)} \cup {item}

RECURSIVE PutItems(_, _)
PutItems(table, batch) ==
    IF batch = <<>> THEN table ELSE PutItems(PutItem(table, Head(batch)), Tail(batch))

\* the flush of detailed_results_table.batch_writer(), created without
\* overwrite_by_pkeys: the buffered items go out in one BatchWriteItem request, and
\* a request that names the same key twice is rejected as a whole (ClientError)
BatchWrite(table, batch) ==
    IF \E i, j \in DOMAIN batch : i < j /\ RowKey(batch[i]) = RowKey(batch[j])
    THEN [table |-> table, raised |-> "ClientError"]
    ELSE [table |-> PutItems(table, batch), raised |-> "none"]

\* the results before the first one that lacks the sort key
RECURSIVE BeforeMissingSortKey(_)
BeforeMissingSortKey(results) ==
    IF results = <<>> \/ Head(results).s3_uri = "absent" THEN <<>>
    ELSE <<Head(results)>> \o BeforeMissingSortKey(Tail(results))

\* put_records(records), seen from the detailed-results table: results are the
\* prediction results of the records, in order
DynamoPutRecords ==
    /\ pc = "table_idle"
    /\ \E results \in SeqsUpTo(DetailResults, MaxResultsPerCall), flushed \in BOOLEAN :
         LET accepted == BeforeMissingSortKey(results)
             complete == Len(accepted) = Len(results)
             batch == [k \in DOMAIN accepted |-> OutputItem(accepted[k])]
             written == IF complete \/ flushed THEN BatchWrite(results_table, batch)
                        ELSE [table |-> results_table, raised |-> "none"]
             raised == IF ~complete THEN "ValueError" ELSE written.raised
         IN  /\ Len(put_item_calls) + Len(accepted) <= MaxPutItems
             /\ complete => flushed
             /\ put_item_calls' = put_item_calls \o batch
             /\ results_table' = written.table
             /\ exc' = raised
             /\ pc' = IF raised = "none" THEN "table_idle" ELSE "table_raised"
    /\ UNCHANGED <<configVars, intakeVars, sinkVars, summary_results, history, unit_log,
                   chunkVars, notifyVars, alarmVars, mergeVars, requestsVars>>

\* a DynamodbOutputCtxManager over an empty detailed-results table
TableInit ==
    /\ InitCommon
    /\ info = {}
    /\ predict_result = {}
    /\ pc = "table_idle"
    /\ inputKind = "none"
    /\ sinkKind = "DynamodbOutputCtxManager"
    /\ chunk_size = 1
    /\ max_processing_requests = 1
    /\ sns_notifications = <<>>

TableNext == DynamoPutRecords

TableSpec == TableInit /\ [][TableNext]_vars

\* the rows of the table that hold the given item
RowsOf(item) == {row \in results_table : row = item}

SunkTwice(item) == Cardinality({k \in DOMAIN put_item_calls : put_item_calls[k] = item}) >= 2

\* C24: a result that was handed to the detailed-results writer twice or more (same
\* flattened content, so the same hashkey) has exactly one row in the table.
C24_SameResultOneRow ==
    \A item \in Range(put_item_calls) : SunkTwice(item) => Cardinality(RowsOf(item)) = 1

\* the bulk writes (put_records calls) whose records include the record of unit id
BulkWritesOf(id) == {c \in DOMAIN put_records_calls : id \in Range(BulkWrite(c))}

\* C31: on a run that exits cleanly, every record given to put_record is in exactly
\* one put_records call of the run (the flushes at the chunk size and the one of
\* __exit__), and it is there once.
C31_EachRecordInOneBulkWrite ==
    CleanExit =>
        \A i \in DOMAIN put_record_calls :
            /\ Cardinality(BulkWritesOf(put_record_calls[i].id)) = 1
            /\ \A c \in BulkWritesOf(put_record_calls[i].id) :
                 Cardinality({k \in DOMAIN put_records_calls[c] :
                                put_records_calls[c][k] = put_record_calls[i]}) = 1

\* three records, chunk size 2: one flush at the threshold and one at exit
C31_Witness ==
    /\ pc = "returned"
    /\ chunk_size = 2
    /\ Len(put_record_calls) = 3
    /\ Len(put_records_calls) = 2
    /\ exit_flushed = <<<<put_record_calls[3]>>>>
    /\ BulkWritesOf(1) = {1}
    /\ BulkWritesOf(3) = {2}

\* every record given to put_record has reached the destination in some bulk write
AllSunk ==
    \A i \in DOMAIN put_record_calls :
        \E c \in DOMAIN sent_calls : put_record_calls[i] \in Range(sent_calls[c])

\* __exit__ of the sink has waited for the result of every submitted update_item
AllAwaited == \A k \in DOMAIN futures : futures[k].awaited

\* C32: a message is deleted only by the input context manager's __exit__, which
\* runs after the sink's __exit__ has returned: at that point no exception is in
\* flight, every record given to the sink has been written (the final flush
\* included) and every submitted request-table update has been waited for.
C32_FlushBeforeDelete ==
    [][(\E id \in Tracked \cap DOMAIN deleted : deleted'[id] > deleted[id]) =>
         /\ pc = "exit_input"
         /\ exc = "none"
         /\ AllSunk
         /\ AllAwaited
         /\ record_results # <<>> => exit_flushed = <<record_results>>]_vars

\* a clean run into the DynamoDB sink: two updates submitted, one by the flush of
\* __exit__, and the message deleted afterwards
C32_Witness ==
    /\ pc = "returned"
    /\ sinkKind = "DynamodbOutputCtxManager"
    /\ Len(futures) >= 2
    /\ AllAwaited
    /\ exit_flushed # <<>>
    /\ \E id \in DOMAIN deleted : deleted[id] > 0

\* the messages the intakes store when the object a request refers to could not be
\* downloaded, read or found
ResolutionErrors == {"Exception while processing image", "DoesNotExist"}

\* the i-th yielded unit is one whose object could not be resolved
Unresolved(i) ==
    unit_log[i].payload \in EmptyPayloads \/ unit_log[i].is_valid = "false"

\* C33: the Info of a yielded unit carries a resolution error in its errors list
\* exactly when the resolution of that unit's object failed, whatever the intake.
C33_ResolutionErrorInInfo ==
    \A i \in DOMAIN unit_log :
        Unresolved(i) <=> (Range(unit_log[i].errors) \cap ResolutionErrors # {})

\* C34: when execute() returns, the "errors" counter is at most the
\* "total_predictions" counter: a unit counted as an error is counted as an item.
C34_ErrorsWithinTotal ==
    pc = "returned" => summary_results.errors <= summary_results.total_predictions

(***************************************************************************)
(* PredictorBase.set_predict_timeout, sigalrm_handler and the cancelling   *)
(* of the alarm by execute(), while a predictor works on units.            *)
(***************************************************************************)
otherVars == <<configVars, intakeVars, sinkVars, summary_results, history, unit_log,
               chunkVars, notifyVars, tableVars, mergeVars>>

\* self.set_predict_timeout(timeout_seconds), called by the predictor:
\* self.PROCESSING_TIMEOUT_SECONDS = timeout_seconds; signal.alarm(timeout_seconds).
\* signal.alarm replaces the timer that was pending; nothing is raised.
SetPredictTimeout ==
    /\ pc = "predicting"
    /\ Len(set_predict_timeout_calls) < MaxArms
    /\ \E timeout_seconds \in 1..MaxTimeout :
         /\ PROCESSING_TIMEOUT_SECONDS' = timeout_seconds
         /\ alarm' = timeout_seconds
         /\ set_predict_timeout_calls' =
              Append(set_predict_timeout_calls,
                     [timeout_seconds |-> timeout_seconds, pending |-> alarm,
                      raised |-> FALSE])
    /\ UNCHANGED <<pc, exc, otherVars, requestsVars>>

\* a second passes; when the timer runs out SIGALRM is delivered and
\* sigalrm_handler raises PredictTimeoutError
AlarmTick ==
    /\ pc = "predicting"
    /\ alarm > 0
    /\ alarm' = alarm - 1
    /\ IF alarm = 1
       THEN exc' = "PredictTimeoutError" /\ pc' = "alarm_raised"
       ELSE UNCHANGED <<pc, exc>>
    /\ UNCHANGED <<PROCESSING_TIMEOUT_SECONDS, set_predict_timeout_calls, otherVars, requestsVars>>

\* execute(), after the unit: if self.predictor.PROCESSING_TIMEOUT_SECONDS: signal.alarm(0)
CancelAlarm ==
    /\ pc = "predicting"
    /\ alarm > 0
    /\ alarm' = IF PROCESSING_TIMEOUT_SECONDS # 0 THEN 0 ELSE alarm
    /\ UNCHANGED <<pc, exc, PROCESSING_TIMEOUT_SECONDS, set_predict_timeout_calls, otherVars, requestsVars>>

\* a predictor is at work; no alarm has been set yet
AlarmInit ==
    /\ InitCommon
    /\ info = {}
    /\ predict_result = {}
    /\ pc = "predicting"
    /\ inputKind = "none"
    /\ sinkKind = "SQSRecordOutputCtxManager"
    /\ chunk_size = 1
    /\ max_processing_requests = 1
    /\ sns_notifications = <<>>

AlarmNext == SetPredictTimeout \/ AlarmTick \/ CancelAlarm

AlarmSpec == AlarmInit /\ [][AlarmNext]_vars

\* C35: a call of set_predict_timeout made while a deadline is armed fails instead
\* of replacing the pending deadline.
C35_RearmFailsFast ==
    \A k \in DOMAIN set_predict_timeout_calls :
        set_predict_timeout_calls[k].pending > 0 => set_predict_timeout_calls[k].raised

\* the units whose predict call ended with PredictTimeoutError
TimedOutUnits == {i \in DOMAIN unit_log : unit_log[i].branch = "predict_timeout"}

\* C36: a timeout is not counted in the "errors" counter (it has a counter of its
\* own): at return "errors" is the number of counted units that did not time out.
C36_TimeoutsCountedApart ==
    pc = "returned" =>
        summary_results.errors = Cardinality(CountedUnits \ TimedOutUnits)

PREDICTOR_RESULTS_KEYNAME == "result"

\* keys a request of a message may carry
RequestKeys == {"request_id", "collection_id", "result"}

\* keys the dict returned by predict may have
PredictKeys == {"result", "request_id", "bucket"}

\* self.context_manager_specific_info_keys of the input context managers
ContextManagerSpecificInfoKeys(kind) ==
    IF kind = "SQSMessagePassthroughCtxManager"
    THEN {"s3uri_keys", "sqs_queue_url", "max_processing_requests"}
    ELSE {"bucket", "key", "download_time"}

\* the info that get_records yields for a resolved request: the image and CSV reader
\* intakes add the request to it, the passthrough intake does not
YieldedInfos(kind) ==
    IF kind = "SQSMessagePassthroughCtxManager"
    THEN {{"s3uri_keys", "sqs_queue_url", "max_processing_requests", "is_valid"}}
    ELSE {{"bucket", "key", "download_time", "current_s3uri_key"} \cup request :
            request \in SUBSET RequestKeys}

MergeRequestInfo_NoFilter(kind, i, prediction) ==
    LET request_info == i \ {PREDICTOR_RESULTS_KEYNAME}
    IN  {<<k, "info">> : k \in request_info}
          \cup {<<k, "predict">> : k \in prediction \ request_info}

\* info.pop(PREDICTOR_RESULTS_KEYNAME); request_info = {k: v ... if k not in
\* input_ctxmgr.context_manager_specific_info_keys}; record_results.update(request_info)
MergeRequestInfo(kind, i, prediction) ==
    LET popped == i \ {PREDICTOR_RESULTS_KEYNAME}
        request_info == popped \ ContextManagerSpecificInfoKeys(kind)
    IN  {<<k, "info">> : k \in request_info}
          \cup {<<k, "predict">> : k \in prediction \ request_info}

\* predict returned a dict for the unit and the request info is merged into it
ExecuteMerge ==
    /\ pc = "merge_call"
    /\ merged_result' = MergeRequestInfo(inputKind, info, predict_result)
    /\ pc' = "merge_done"
    /\ UNCHANGED <<exc, info, predict_result, configVars, intakeVars, sinkVars,
                   summary_results, history, unit_log, chunkVars, notifyVars, tableVars,
                   alarmVars, requestsVars>>

\* a unit has been yielded and predict has returned a dict
MergeInit ==
    /\ InitCommon
    /\ pc = "merge_call"
    /\ inputKind \in InputKinds
    /\ sinkKind = "SQSRecordOutputCtxManager"
    /\ chunk_size = 1
    /\ max_processing_requests = 1
    /\ sns_notifications = <<>>
    /\ info \in YieldedInfos(inputKind)
    /\ predict_result \in SUBSET PredictKeys

MergeNext == ExecuteMerge

MergeSpec == MergeInit /\ [][MergeNext]_vars

MergedKeys == {p[1] : p \in merged_result}

\* C38 as claimed: every key of the yielded info that is not a private key of the
\* intake is a key of the merged record, and no private key in it comes from info.
C38_InfoFieldsMerged ==
    pc = "merge_done" =>
        /\ info \ ContextManagerSpecificInfoKeys(inputKind) \subseteq MergedKeys
        /\ \A k \in ContextManagerSpecificInfoKeys(inputKind) : <<k, "info">> \notin merged_result

\* C38, amended: every key of the yielded info that is neither a private key of the
\* intake nor the results key ("result", which execute() removes from info before
\* the predict call) is in the merged record with the value of info, and no private
\* key in it comes from info.
C38_InfoFieldsMergedButResult ==
    pc = "merge_done" =>
        /\ \A k \in info \ ContextManagerSpecificInfoKeys(inputKind) :
             k # PREDICTOR_RESULTS_KEYNAME => <<k, "info">> \in merged_result
        /\ \A k \in ContextManagerSpecificInfoKeys(inputKind) : <<k, "info">> \notin merged_result

\* the image intake: the request's id replaces the one of the prediction, "bucket"
\* stays the prediction's own, the request's "result" is not merged
C38_Witness ==
    /\ pc = "merge_done"
    /\ inputKind = "SQSMessageS3InputImageCtxManager"
    /\ {"request_id", "result", "bucket"} \subseteq info
    /\ predict_result = {"request_id", "bucket"}
    /\ <<"request_id", "info">> \in merged_result
    /\ <<"bucket", "predict">> \in merged_result
    /\ "result" \notin MergedKeys

(***************************************************************************)
(* DynamodbOutputCtxManager: the update_item calls that put_records submits *)
(* to self.executor (a ThreadPoolExecutor with the default number of        *)
(* workers) for records with one and the same request id.                   *)
(***************************************************************************)
\* record[self.requests_statekey]: the state a record is written with
RequestStates == {"DYNAMODB_RESULTS_PROCESSED_STATE", "DYNAMODB_RESULTS_ERROR_STATE"}

\* put_records: future = self.executor.submit(update_item, prepared_record, ...)
SubmitUpdateItem ==
    /\ pc = "updating"
    /\ Len(update_item_calls) < MaxUpdates
    /\ \E state \in RequestStates :
         update_item_calls' = Append(update_item_calls, state)
    /\ UNCHANGED <<pc, exc, applied_updates, requests_row, otherVars, alarmVars>>

\* a worker thread of the pool completes table.update_item for a submitted call.
\* The pool has more workers than there are calls, so every submitted call that is
\* not done is in flight, and the calls in flight complete in any order.
WorkerUpdateItem ==
    /\ pc = "updating"
    /\ \E k \in DOMAIN update_item_calls \ applied_updates :
         /\ applied_updates' = applied_updates \cup {k}
         /\ requests_row' = k
    /\ UNCHANGED <<pc, exc, update_item_calls, otherVars, alarmVars>>

\* __exit__: for f in self.futures: f.result(timeout=None) has returned for all
AwaitUpdateItems ==
    /\ pc = "updating"
    /\ applied_updates = DOMAIN update_item_calls
    /\ pc' = "updates_done"
    /\ UNCHANGED <<exc, requestsVars, otherVars, alarmVars>>

\* a DynamodbOutputCtxManager has been entered; nothing has been sunk
RequestsInit ==
    /\ InitCommon
    /\ info = {}
    /\ predict_result = {}
    /\ pc = "updating"
    /\ inputKind = "none"
    /\ sinkKind = "DynamodbOutputCtxManager"
    /\ chunk_size = 1
    /\ max_processing_requests = 1
    /\ sns_notifications = <<>>

RequestsNext == SubmitUpdateItem \/ WorkerUpdateItem \/ AwaitUpdateItems

RequestsSpec == RequestsInit /\ [][RequestsNext]_vars

\* C39: when the sink has been left after two or more records with the same request
\* id were sunk, the row of the request id is the one of the record sunk last.
C39_LaterUpdateWins ==
    (pc = "updates_done" /\ Len(update_item_calls) >= 2) =>
        requests_row = Len(update_item_calls)

\* C40: SNS.publish is only called once the with block of execute() has been left
\* without an exception, that is after the sink has been flushed and every tracked
\* message has been deleted; a run whose with block raised publishes nothing.
C40_NotifyAfterCleanExit ==
    [][/\ publish_calls' # publish_calls =>
            /\ pc = "notify"
            /\ exc = "none"
            /\ AllSunk
            /\ AllAwaited
            /\ \A id \in Tracked : deleted[id] > 0 /\ visibility_changes[id] = <<>>
       /\ pc' = "raised" => publish_calls' = <<>>]_vars

\* a run that sank two units, deleted its message and then published one group
C40_Witness ==
    /\ pc = "returned"
    /\ Len(publish_calls) = 1
    /\ publish_calls[1].outcome = "ok"
    /\ Len(put_record_calls) = 2
    /\ AllSunk
    /\ Tracked # {}
    /\ \A id \in Tracked : deleted[id] > 0

====
